---- MODULE Spec2Model ----
(***************************************************************************)
(* Model of zdeploy's token service and user service                       *)
(* (server/internal/token, server/internal/user).                          *)
(*                                                                         *)
(* The relational store is two tables: tokens (rows keyed by hash) and     *)
(* users (rows keyed by id).  Every repository method is an operator that  *)
(* maps the table and its arguments to the error it returns and the table  *)
(* it leaves; every service method composes them as the Go code does.      *)
(* Time is measured in hours.                                              *)
(***************************************************************************)
EXTENDS Integers, Sequences, FiniteSets, TLC

VARIABLES tokens, now, ret, users, nextID, uret, pc, call

vars == <<tokens, now, ret, users, nextID, uret, pc, call>>

tokenVars == <<tokens, now, ret>>
userVars == <<users, nextID, uret>>
procVars == <<pc, call>>

----------------------------------------------------------------------------
(* token.go *)

ScopeAuth == "authentication"
ScopeDeploy == "deployment"
ScopeRefresh == "refresh"

Scopes == {ScopeAuth, ScopeDeploy, ScopeRefresh}

AuthTokenDuration == 2
DeployTokenDuration == 4
RefreshTokenDuration == 168

(* MaxPlain bounds the plaintexts crypto/rand can produce, and with them *)
(* the rows the tokens table can hold; MaxTokenUser bounds the user ids  *)
(* callers pass to the token service (the service never looks them up).  *)
MaxPlain == 3
MaxTokenUser == 2

(* The plaintexts, the user ids, the instants the clock shows and the    *)
(* lifetimes callers ask of CreateAuthToken.                              *)
PlainTexts == 1..MaxPlain
TokenUserIDs == 1..MaxTokenUser
RandFail == 0
Instants == {0, AuthTokenDuration, RefreshTokenDuration + 1}
TTLs == {1}

(* sha256.Sum256 over the plaintext: deterministic, and without collisions *)
(* on the plaintexts of the model.                                          *)
Sha256(p) == (p * 37 + 11) % 101

(* The persisted columns of a Token: the plaintext has no column. *)
Row(t) == [hash |-> t.hash, userID |-> t.userID, expiry |-> t.expiry, scope |-> t.scope]

(* GenerateToken: rnd is what rand.Read delivers, RandFail when it fails. *)
GenerateToken(userID, ttl, scope, clock, rnd) ==
    IF rnd = RandFail
    THEN [err |-> "ErrRand", token |-> {}]
    ELSE [err |-> "nil",
          token |-> {[plaintext |-> rnd, hash |-> Sha256(rnd), userID |-> userID,
                      expiry |-> clock + ttl, scope |-> scope]}]

----------------------------------------------------------------------------
(* token_repository.go: each operator takes the table and whether the     *)
(* database call goes through (dbOk), and yields the error and the table. *)

(* The tokens table rejects a second row with a stored hash. *)
HashTaken(store, hash) == \E r \in store : r.hash = hash

Insert(store, token, dbOk) ==
    IF ~dbOk THEN [err |-> "ErrDB", store |-> store]
    ELSE IF HashTaken(store, token.hash) THEN [err |-> "ErrConflict", store |-> store]
    ELSE [err |-> "nil", store |-> store \cup {Row(token)}]

(* CreateNewToken that replaces the rows of the (user, scope) slot in the *)
(* same statement as the insert.                                          *)
CreateNewToken_Replacing(store, userID, ttl, scope, clock, rnd, dbOk) ==
    LET g == GenerateToken(userID, ttl, scope, clock, rnd) IN
    IF g.err # "nil"
    THEN [err |-> g.err, token |-> {}, store |-> store]
    ELSE LET t == CHOOSE x \in g.token : TRUE
             kept == {r \in store : ~(r.scope = scope /\ r.userID = userID)}
             i == Insert(kept, t, dbOk)
         IN [err |-> i.err, token |-> g.token,
             store |-> IF i.err = "nil" THEN i.store ELSE store]

CreateNewToken(store, userID, ttl, scope, clock, rnd, dbOk) ==
    LET g == GenerateToken(userID, ttl, scope, clock, rnd) IN
    IF g.err # "nil"
    THEN [err |-> g.err, token |-> {}, store |-> store]
    ELSE LET t == CHOOSE x \in g.token : TRUE
             i == Insert(store, t, dbOk)
         IN [err |-> i.err, token |-> g.token, store |-> i.store]

(* DeleteAllTokensForUser that reports a delete of no rows as an error. *)
DeleteAllTokensForUser_RowsChecked(store, userID, scope, dbOk) ==
    IF ~dbOk THEN [err |-> "ErrDB", store |-> store]
    ELSE IF ~\E r \in store : r.scope = scope /\ r.userID = userID
         THEN [err |-> "ErrNoRows", store |-> store]
    ELSE [err |-> "nil",
          store |-> {r \in store : ~(r.scope = scope /\ r.userID = userID)}]

DeleteAllTokensForUser(store, userID, scope, dbOk) ==
    IF ~dbOk THEN [err |-> "ErrDB", store |-> store]
    ELSE [err |-> "nil",
          store |-> {r \in store : ~(r.scope = scope /\ r.userID = userID)}]

DeleteTokenByHash(store, hash, dbOk) ==
    IF ~dbOk THEN [err |-> "ErrDB", store |-> store]
    ELSE [err |-> "nil", store |-> {r \in store : r.hash # hash}]

GetByHash(store, hash, dbOk) ==
    IF ~dbOk THEN [err |-> "ErrDB", token |-> {}]
    ELSE IF ~HashTaken(store, hash) THEN [err |-> "ErrNoRows", token |-> {}]
    ELSE [err |-> "nil", token |-> {CHOOSE r \in store : r.hash = hash}]

----------------------------------------------------------------------------
(* token_service.go: each operator yields the error returned, the tokens  *)
(* returned, the table left behind, (dberr) the error of the storage call *)
(* that ended it and (calls) the repository methods it called, in order.  *)

Result(err, token, refresh, store, dberr, calls) ==
    [err |-> err, token |-> token, refresh |-> refresh, store |-> store,
     dberr |-> dberr, calls |-> calls]

(* CreateAuthToken without the scope-wide delete. *)
CreateAuthToken_NoEvict(store, userID, ttl, clock, rnd, delOk, insOk) ==
    LET c == CreateNewToken(store, userID, ttl, ScopeAuth, clock, rnd, insOk)
        calls == <<"CreateNewToken">>
    IN
    IF c.err # "nil" THEN Result(c.err, {}, {}, c.store, c.err, calls)
    ELSE Result("nil", c.token, {}, c.store, "nil", calls)

CreateAuthToken(store, userID, ttl, clock, rnd, delOk, insOk) ==
    LET d == DeleteAllTokensForUser(store, userID, ScopeAuth, delOk)
        one == <<"DeleteAllTokensForUser">>
        two == <<"DeleteAllTokensForUser", "CreateNewToken">>
    IN
    IF d.err # "nil" THEN Result(d.err, {}, {}, d.store, d.err, one)
    ELSE LET c == CreateNewToken(d.store, userID, ttl, ScopeAuth, clock, rnd, insOk) IN
         IF c.err # "nil" THEN Result(c.err, {}, {}, c.store, c.err, two)
         ELSE Result("nil", c.token, {}, c.store, "nil", two)

(* ValidateToken with the scope compared before the expiry. *)
ValidateToken_ScopeFirst(store, plaintext, scope, clock, getOk) ==
    LET g == GetByHash(store, Sha256(plaintext), getOk)
        calls == <<"GetByHash">>
    IN
    IF g.err # "nil" THEN Result("ErrTokenNotFound", {}, {}, store, g.err, calls)
    ELSE LET t == CHOOSE x \in g.token : TRUE IN
         IF t.scope # scope THEN Result("ErrInvalidScope", {}, {}, store, "nil", calls)
         ELSE IF clock > t.expiry THEN Result("ErrTokenExpired", {}, {}, store, "nil", calls)
         ELSE Result("nil", g.token, {}, store, "nil", calls)

ValidateToken(store, plaintext, scope, clock, getOk) ==
    LET g == GetByHash(store, Sha256(plaintext), getOk)
        calls == <<"GetByHash">>
    IN
    IF g.err # "nil" THEN Result("ErrTokenNotFound", {}, {}, store, g.err, calls)
    ELSE LET t == CHOOSE x \in g.token : TRUE IN
         IF clock > t.expiry THEN Result("ErrTokenExpired", {}, {}, store, "nil", calls)
         ELSE IF t.scope # scope THEN Result("ErrInvalidScope", {}, {}, store, "nil", calls)
         ELSE Result("nil", g.token, {}, store, "nil", calls)

RevokeToken(store, hash, dbOk) ==
    LET d == DeleteTokenByHash(store, hash, dbOk) IN
    Result(d.err, {}, {}, d.store, d.err, <<"DeleteTokenByHash">>)

RevokeAllUserTokens(store, userID, scope, dbOk) ==
    LET d == DeleteAllTokensForUser(store, userID, scope, dbOk) IN
    Result(d.err, {}, {}, d.store, d.err, <<"DeleteAllTokensForUser">>)

(* CreateAuthTokenWithRefresh that takes the auth token back out when the *)
(* refresh token cannot be created.                                       *)
CreateAuthTokenWithRefresh_Rollback(store, userID, clock, rnd1, ok1, rnd2, ok2) ==
    LET a == CreateNewToken(store, userID, AuthTokenDuration, ScopeAuth, clock, rnd1, ok1)
        one == <<"CreateNewToken">>
        two == <<"CreateNewToken", "CreateNewToken">>
    IN
    IF a.err # "nil" THEN Result(a.err, {}, {}, a.store, a.err, one)
    ELSE LET r == CreateNewToken(a.store, userID, RefreshTokenDuration, ScopeRefresh,
                                 clock, rnd2, ok2) IN
         IF r.err # "nil" THEN Result(r.err, {}, {}, store, r.err, two)
         ELSE Result("nil", a.token, r.token, r.store, "nil", two)

(* CreateAuthTokenWithRefresh that replaces the user's refresh tokens. *)
CreateAuthTokenWithRefresh_SingleRefresh(store, userID, clock, rnd1, ok1, rnd2, ok2) ==
    LET a == CreateNewToken(store, userID, AuthTokenDuration, ScopeAuth, clock, rnd1, ok1)
        one == <<"CreateNewToken">>
        two == <<"CreateNewToken", "CreateNewToken">>
    IN
    IF a.err # "nil" THEN Result(a.err, {}, {}, a.store, a.err, one)
    ELSE LET kept == {x \in a.store : ~(x.scope = ScopeRefresh /\ x.userID = userID)}
             r == CreateNewToken(kept, userID, RefreshTokenDuration, ScopeRefresh,
                                 clock, rnd2, ok2) IN
         IF r.err # "nil" THEN Result(r.err, {}, {}, r.store, r.err, two)
         ELSE Result("nil", a.token, r.token, r.store, "nil", two)

CreateAuthTokenWithRefresh(store, userID, clock, rnd1, ok1, rnd2, ok2) ==
    LET a == CreateNewToken(store, userID, AuthTokenDuration, ScopeAuth, clock, rnd1, ok1)
        one == <<"CreateNewToken">>
        two == <<"CreateNewToken", "CreateNewToken">>
    IN
    IF a.err # "nil" THEN Result(a.err, {}, {}, a.store, a.err, one)
    ELSE LET r == CreateNewToken(a.store, userID, RefreshTokenDuration, ScopeRefresh,
                                 clock, rnd2, ok2) IN
         IF r.err # "nil" THEN Result(r.err, {}, {}, r.store, r.err, two)
         ELSE Result("nil", a.token, r.token, r.store, "nil", two)

(* RefreshAuthToken that consumes the refresh token it was given. *)
RefreshAuthToken_Rotating(store, plaintext, clock, getOk, rnd, insOk) ==
    LET v == ValidateToken(store, plaintext, ScopeRefresh, clock, getOk) IN
    IF v.err # "nil" THEN Result(v.err, {}, {}, v.store, v.dberr, v.calls)
    ELSE LET rt == CHOOSE x \in v.token : TRUE
             c == CreateNewToken(v.store \ {rt}, rt.userID, AuthTokenDuration, ScopeAuth,
                                 clock, rnd, insOk)
             calls == Append(v.calls, "CreateNewToken")
         IN IF c.err # "nil" THEN Result(c.err, {}, {}, c.store, c.err, calls)
            ELSE Result("nil", c.token, {}, c.store, "nil", calls)

RefreshAuthToken(store, plaintext, clock, getOk, rnd, insOk) ==
    LET v == ValidateToken(store, plaintext, ScopeRefresh, clock, getOk) IN
    IF v.err # "nil" THEN Result(v.err, {}, {}, v.store, v.dberr, v.calls)
    ELSE LET rt == CHOOSE x \in v.token : TRUE
             c == CreateNewToken(v.store, rt.userID, AuthTokenDuration, ScopeAuth,
                                 clock, rnd, insOk)
             calls == Append(v.calls, "CreateNewToken")
         IN IF c.err # "nil" THEN Result(c.err, {}, {}, c.store, c.err, calls)
            ELSE Result("nil", c.token, {}, c.store, "nil", calls)

CreateDeployToken(store, userID, clock, rnd, delOk, insOk) ==
    LET d == DeleteAllTokensForUser(store, userID, ScopeDeploy, delOk)
        one == <<"DeleteAllTokensForUser">>
        two == <<"DeleteAllTokensForUser", "CreateNewToken">>
    IN
    IF d.err # "nil" THEN Result(d.err, {}, {}, d.store, d.err, one)
    ELSE LET c == CreateNewToken(d.store, userID, DeployTokenDuration, ScopeDeploy,
                                 clock, rnd, insOk) IN
         IF c.err # "nil" THEN Result(c.err, {}, {}, c.store, c.err, two)
         ELSE Result("nil", c.token, {}, c.store, "nil", two)

----------------------------------------------------------------------------
(* The record of the last token-service call: its name and arguments, the *)
(* values it returned, and how many rows of its (user, scope) slot were   *)
(* stored when it was called.                                              *)

SlotRows(store, userID, scope) == {r \in store : r.userID = userID /\ r.scope = scope}

Called(op, userID, scope, plaintext, store, r) ==
    [op |-> op, userID |-> userID, scope |-> scope, plaintext |-> plaintext,
     err |-> r.err, token |-> r.token, refresh |-> r.refresh, dberr |-> r.dberr,
     calls |-> r.calls,
     before |-> Cardinality(SlotRows(store, userID, scope))]

NoCall ==
    [op |-> "none", userID |-> 0, scope |-> "none", plaintext |-> 0,
     err |-> "nil", token |-> {}, refresh |-> {}, dberr |-> "nil",
     calls |-> <<>>, before |-> 0]

(* A call stops at its first failing step, so the environment of a call is *)
(* the step that fails, if any (a storage call with dbOk false, or          *)
(* rand.Read), and the plaintexts rand.Read delivers: a plaintext under     *)
(* the faults with which the call gets past that rand.Read, RandFail under  *)
(* the others.                                                              *)
Drawn(fault, reached) == IF fault \in reached THEN PlainTexts ELSE {RandFail}

DoCreateAuthToken ==
    /\ ret = NoCall
    /\ \E u \in TokenUserIDs, ttl \in TTLs, fault \in {"none", "delete", "rand", "insert"} :
      \E rnd \in Drawn(fault, {"none", "insert"}) :
        LET r == CreateAuthToken(tokens, u, ttl, now, rnd,
                                 fault # "delete", fault # "insert") IN
        /\ tokens' = r.store
        /\ ret' = Called("CreateAuthToken", u, ScopeAuth, 0, tokens, r)
        /\ UNCHANGED <<now, userVars, procVars>>

DoCreateDeployToken ==
    /\ ret = NoCall
    /\ \E u \in TokenUserIDs, fault \in {"none", "delete", "rand", "insert"} :
      \E rnd \in Drawn(fault, {"none", "insert"}) :
        LET r == CreateDeployToken(tokens, u, now, rnd,
                                   fault # "delete", fault # "insert") IN
        /\ tokens' = r.store
        /\ ret' = Called("CreateDeployToken", u, ScopeDeploy, 0, tokens, r)
        /\ UNCHANGED <<now, userVars, procVars>>

DoCreateAuthTokenWithRefresh ==
    /\ ret = NoCall
    /\ \E u \in TokenUserIDs, fault \in {"none", "rand1", "insert1", "rand2", "insert2"} :
      \E rnd1 \in Drawn(fault, {"none", "insert1", "rand2", "insert2"}),
         rnd2 \in Drawn(fault, {"none", "insert2"}) :
        LET r == CreateAuthTokenWithRefresh(tokens, u, now, rnd1, fault # "insert1",
                                            rnd2, fault # "insert2") IN
        /\ tokens' = r.store
        /\ ret' = Called("CreateAuthTokenWithRefresh", u, ScopeAuth, 0, tokens, r)
        /\ UNCHANGED <<now, userVars, procVars>>

DoRefreshAuthToken ==
    /\ ret = NoCall
    /\ \E p \in PlainTexts, fault \in {"none", "get", "rand", "insert"} :
      \E rnd \in Drawn(fault, {"none", "insert"}) :
        LET r == RefreshAuthToken(tokens, p, now, fault # "get", rnd, fault # "insert")
            owner == IF HashTaken(tokens, Sha256(p))
                     THEN (CHOOSE x \in tokens : x.hash = Sha256(p)).userID
                     ELSE 0
        IN
        /\ tokens' = r.store
        /\ ret' = Called("RefreshAuthToken", owner, ScopeAuth, p, tokens, r)
        /\ UNCHANGED <<now, userVars, procVars>>

DoValidateToken ==
    /\ ret = NoCall
    /\ \E p \in PlainTexts, scope \in Scopes, getOk \in BOOLEAN :
        LET r == ValidateToken(tokens, p, scope, now, getOk) IN
        /\ tokens' = r.store
        /\ ret' = Called("ValidateToken", 0, scope, p, tokens, r)
        /\ UNCHANGED <<now, userVars, procVars>>

DoRevokeToken ==
    /\ ret = NoCall
    /\ \E p \in PlainTexts, dbOk \in BOOLEAN :
        LET r == RevokeToken(tokens, Sha256(p), dbOk) IN
        /\ tokens' = r.store
        /\ ret' = Called("RevokeToken", 0, "none", p, tokens, r)
        /\ UNCHANGED <<now, userVars, procVars>>

DoRevokeAllUserTokens ==
    /\ ret = NoCall
    /\ \E u \in TokenUserIDs, scope \in Scopes, dbOk \in BOOLEAN :
        LET r == RevokeAllUserTokens(tokens, u, scope, dbOk) IN
        /\ tokens' = r.store
        /\ ret' = Called("RevokeAllUserTokens", u, scope, 0, tokens, r)
        /\ UNCHANGED <<now, userVars, procVars>>

(* The caller takes the result; the next call may start. *)
Return ==
    /\ ret # NoCall
    /\ ret' = NoCall
    /\ UNCHANGED <<tokens, now, userVars, procVars>>

(* Between two calls the wall clock moves on to a later instant. *)
Tick ==
    /\ ret = NoCall
    /\ \E t \in Instants : t > now /\ now' = t
    /\ UNCHANGED <<tokens, ret, userVars, procVars>>

----------------------------------------------------------------------------
(* Concurrent issuance.  Each of two requests runs CreateAuthToken or     *)
(* CreateDeployToken one storage call at a time: the scope-wide delete,   *)
(* then CreateNewToken.  call[p] holds the arguments and the result of    *)
(* request p, and raced: whether, when p inserted, the other request had  *)
(* deleted the rows of the same slot and not yet inserted.                *)

Procs == {1, 2}

NoIssue ==
    [op |-> "none", userID |-> 0, scope |-> "none", ttl |-> 0,
     err |-> "nil", token |-> {}, raced |-> FALSE]

IssueOps ==
    {[op |-> "CreateAuthToken", scope |-> ScopeAuth, ttl |-> ttl] : ttl \in TTLs}
    \cup {[op |-> "CreateDeployToken", scope |-> ScopeDeploy, ttl |-> DeployTokenDuration]}

SameSlot(c, d) == c.userID = d.userID /\ c.scope = d.scope

(* token_service.go: the DeleteAllTokensForUser call of an issuance. *)
Evict(p) ==
    /\ pc[p] = "idle"
    /\ \E o \in IssueOps, u \in TokenUserIDs, dbOk \in BOOLEAN :
          LET d == DeleteAllTokensForUser(tokens, u, o.scope, dbOk)
              c == [op |-> o.op, userID |-> u, scope |-> o.scope, ttl |-> o.ttl,
                    err |-> d.err, token |-> {}, raced |-> FALSE]
          IN /\ tokens' = d.store
             /\ call' = [call EXCEPT ![p] = c]
             /\ pc' = [pc EXCEPT ![p] = IF d.err # "nil" THEN "done" ELSE "evicted"]
    /\ UNCHANGED <<now, ret, userVars>>

(* token_service.go: the CreateNewToken call of an issuance, and its return. *)
Issue(p) ==
    /\ pc[p] = "evicted"
    /\ \E fault \in {"none", "rand", "insert"} :
        \E rnd \in Drawn(fault, {"none", "insert"}) :
          LET c == call[p]
              n == CreateNewToken(tokens, c.userID, c.ttl, c.scope, now, rnd, fault # "insert")
          IN /\ tokens' = n.store
             /\ call' = [call EXCEPT ![p] =
                   [c EXCEPT !.err = n.err,
                             !.token = IF n.err = "nil" THEN n.token ELSE {},
                             !.raced = \E q \in Procs \ {p} :
                                          pc[q] = "evicted" /\ SameSlot(call[q], c)]]
             /\ pc' = [pc EXCEPT ![p] = "done"]
    /\ UNCHANGED <<now, ret, userVars>>

(* The request is over; the next one may start (raced is about the       *)
(* requests in flight, so it is cleared when the other one goes).         *)
Finish(p) ==
    /\ pc[p] = "done"
    /\ pc' = [pc EXCEPT ![p] = "idle"]
    /\ call' = [q \in Procs |-> IF q = p THEN NoIssue
                                ELSE [call[q] EXCEPT !.raced = FALSE]]
    /\ UNCHANGED <<tokens, now, ret, userVars>>

----------------------------------------------------------------------------
(* user model (password, User).  Strings are sequences of characters; a  *)
(* nullable column (approved_at, approved_by) is the empty set or a       *)
(* singleton.                                                             *)

LowerChars == {"a", "b", "c", "d", "e", "f", "g", "h", "i", "j", "k", "l", "m",
               "n", "o", "p", "q", "r", "s", "t", "u", "v", "w", "x", "y", "z"}
UpperChars == {"A", "B", "C", "D", "E", "F", "G", "H", "I", "J", "K", "L", "M",
               "N", "O", "P", "Q", "R", "S", "T", "U", "V", "W", "X", "Y", "Z"}
DigitChars == {"0", "1", "2", "3", "4", "5", "6", "7", "8", "9"}
SpaceChars == {" ", "\t", "\n", "\r"}

MinUsernameLen == 3
MaxUsernameLen == 50
MinPasswordLen == 8
MaxPasswordLen == 100

(* MaxUsers bounds the ids the users table hands out. *)
MaxUsers == 2

NameAdmin == <<"a", "d", "m", "i", "n">>
NameBob == <<"b", "o", "b">>
NameBobPadded == <<" ", "b", "o", "b">>
NameShort == <<"a", "b">>
PwValid == <<"V", "a", "l", "i", "d", "1", "P", "a", "s", "s">>
PwOther == <<"O", "t", "h", "e", "r", "2", "P", "a", "s", "s">>
PwWeak == <<"a", "l", "l", "l", "o", "w", "e", "r", "c", "a", "s", "e", "1">>

(* What callers pass. *)
NameInputs == {NameBob, NameBobPadded, NameShort}
Names == NameInputs \cup {NameAdmin}
NewPasswords == {PwValid, PwWeak}
Statuses == {"active"}
Salts == {1}
UserIDs == 1..MaxUsers
ActorIDs == 0..MaxUsers

(* bcrypt: the stored hash carries its salt and the digest of salt and   *)
(* password; comparing recomputes the digest with the stored salt.       *)
BcryptDigest(salt, plain) == <<salt, plain>>
PasswordSet(plain, salt) == [salt |-> salt, digest |-> BcryptDigest(salt, plain)]
Matches(hash, plain) == BcryptDigest(hash.salt, plain) = hash.digest

RECURSIVE TrimLeft(_)
TrimLeft(str) ==
    IF str # <<>> /\ Head(str) \in SpaceChars THEN TrimLeft(Tail(str)) ELSE str

RECURSIVE TrimRight(_)
TrimRight(str) ==
    IF str # <<>> /\ str[Len(str)] \in SpaceChars
    THEN TrimRight(SubSeq(str, 1, Len(str) - 1))
    ELSE str

TrimSpace(str) == TrimRight(TrimLeft(str))

AllIn(str, class) == \A i \in 1..Len(str) : str[i] \in class
SomeIn(str, class) == \E i \in 1..Len(str) : str[i] \in class

(* validateUsername: the checks run on the trimmed copy. *)
validateUsername(username) ==
    LET trimmed == TrimSpace(username) IN
    IF Len(trimmed) < MinUsernameLen THEN "ErrInvalidUsername"
    ELSE IF Len(trimmed) > MaxUsernameLen THEN "ErrInvalidUsername"
    ELSE IF ~(Len(trimmed) >= 1
              /\ AllIn(trimmed, LowerChars \cup UpperChars \cup DigitChars \cup {"_", "-"}))
         THEN "ErrInvalidUsername"
    ELSE "nil"

validatePassword(password) ==
    IF Len(password) < MinPasswordLen THEN "ErrInvalidPassword"
    ELSE IF Len(password) > MaxPasswordLen THEN "ErrInvalidPassword"
    ELSE IF \/ ~SomeIn(password, UpperChars)
            \/ ~SomeIn(password, LowerChars)
            \/ ~SomeIn(password, DigitChars)
         THEN "ErrInvalidPassword"
    ELSE "nil"

----------------------------------------------------------------------------
(* user_repository.go: operators over the users table. *)

UserRow(id, username, hash, approvedAt, approvedBy, isAdmin, status) ==
    [id |-> id, username |-> username, passwordHash |-> hash,
     approvedAt |-> approvedAt, approvedBy |-> approvedBy,
     isAdmin |-> isAdmin, status |-> status]

(* The users table rejects a second row with a stored username. *)
UsernameTaken(tbl, username, id) == \E r \in tbl : r.username = username /\ r.id # id

GetUserByUsername(tbl, username, dbOk) ==
    IF ~dbOk THEN [err |-> "ErrDB", user |-> {}]
    ELSE [err |-> "nil", user |-> {r \in tbl : r.username = username}]

GetUserByID(tbl, id, dbOk) ==
    IF ~dbOk THEN [err |-> "ErrDB", user |-> {}]
    ELSE [err |-> "nil", user |-> {r \in tbl : r.id = id}]

(* INSERT ... RETURNING id: the row gets the next id; approved_at and *)
(* approved_by are not among the inserted columns.                     *)
RepoCreateUser(tbl, user, id, dbOk) ==
    IF ~dbOk THEN [err |-> "ErrDB", user |-> {}, users |-> tbl]
    ELSE IF UsernameTaken(tbl, user.username, id)
         THEN [err |-> "ErrConflict", user |-> {}, users |-> tbl]
    ELSE LET row == UserRow(id, user.username, user.passwordHash, {}, {},
                            user.isAdmin, user.status)
         IN [err |-> "nil", user |-> {row}, users |-> tbl \cup {row}]

(* UPDATE users SET username, status, is_admin, approved_at, approved_by *)
(* WHERE id: password_hash is not among the columns written.              *)
RepoUpdateUser(tbl, user, dbOk) ==
    IF ~dbOk THEN [err |-> "ErrDB", users |-> tbl]
    ELSE IF UsernameTaken(tbl, user.username, user.id) /\ \E r \in tbl : r.id = user.id
         THEN [err |-> "ErrConflict", users |-> tbl]
    ELSE IF ~\E r \in tbl : r.id = user.id THEN [err |-> "ErrNoRows", users |-> tbl]
    ELSE [err |-> "nil",
          users |-> {IF r.id = user.id
                     THEN [r EXCEPT !.username = user.username, !.status = user.status,
                                    !.isAdmin = user.isAdmin,
                                    !.approvedAt = user.approvedAt,
                                    !.approvedBy = user.approvedBy]
                     ELSE r : r \in tbl}]

DeleteUserByUsername(tbl, username, dbOk) ==
    IF ~dbOk THEN [err |-> "ErrDB", users |-> tbl]
    ELSE IF ~\E r \in tbl : r.username = username THEN [err |-> "ErrNoRows", users |-> tbl]
    ELSE [err |-> "nil", users |-> {r \in tbl : r.username # username}]

RepoApproveUser(tbl, userID, approvedBy, clock, dbOk) ==
    IF ~dbOk THEN [err |-> "ErrDB", users |-> tbl]
    ELSE IF ~\E r \in tbl : r.id = userID THEN [err |-> "ErrNoRows", users |-> tbl]
    ELSE [err |-> "nil",
          users |-> {IF r.id = userID
                     THEN [r EXCEPT !.approvedAt = {clock}, !.approvedBy = {approvedBy}]
                     ELSE r : r \in tbl}]

(* SELECT u.* FROM users u INNER JOIN tokens t ON t.user_id = u.id      *)
(* WHERE t.hash = $1 AND t.scope = $2 AND t.expiry > $3, with the hash  *)
(* of the plaintext and time.Now(): the users joined to a matching row  *)
(* of the tokens table (store), none when no row comes back.            *)
GetUserToken(tbl, store, scope, tokenPlainText, clock, dbOk) ==
    IF ~dbOk THEN [err |-> "ErrDB", user |-> {}]
    ELSE [err |-> "nil",
          user |-> {u \in tbl : \E t \in store : /\ t.userID = u.id
                                                  /\ t.hash = Sha256(tokenPlainText)
                                                  /\ t.scope = scope
                                                  /\ t.expiry > clock}]

----------------------------------------------------------------------------
(* user service: each operator yields the error returned, the user      *)
(* returned, the table left behind and the repository methods it called, *)
(* in order.  fault names the storage call that fails, if any.           *)

UResult(err, user, tbl, calls) == [err |-> err, user |-> user, users |-> tbl, calls |-> calls]

The(set) == CHOOSE x \in set : TRUE

(* CreateUser without the lookup of the username. *)
CreateUser_NoLookup(tbl, username, password, id, salt, fault) ==
    IF validateUsername(username) # "nil"
    THEN UResult(validateUsername(username), {}, tbl, <<>>)
    ELSE IF validatePassword(password) # "nil"
         THEN UResult(validatePassword(password), {}, tbl, <<>>)
    ELSE LET user == UserRow(0, username, PasswordSet(password, salt), {}, {},
                             FALSE, "pending")
             c == RepoCreateUser(tbl, user, id, fault # "insert")
             done == <<"CreateUser">>
         IN IF c.err # "nil" THEN UResult(c.err, {}, c.users, done)
            ELSE UResult("nil", c.user, c.users, done)

CreateUser(tbl, username, password, id, salt, fault) ==
    IF validateUsername(username) # "nil"
    THEN UResult(validateUsername(username), {}, tbl, <<>>)
    ELSE IF validatePassword(password) # "nil"
         THEN UResult(validatePassword(password), {}, tbl, <<>>)
    ELSE LET g == GetUserByUsername(tbl, username, fault # "get")
             read == <<"GetUserByUsername">>
         IN
         IF g.err # "nil" THEN UResult(g.err, {}, tbl, read)
         ELSE IF g.user # {} THEN UResult("ErrUserAlreadyExists", {}, tbl, read)
         ELSE LET user == UserRow(0, username, PasswordSet(password, salt), {}, {},
                                  FALSE, "pending")
                  c == RepoCreateUser(tbl, user, id, fault # "insert")
                  done == Append(read, "CreateUser")
              IN IF c.err # "nil" THEN UResult(c.err, {}, c.users, done)
                 ELSE UResult("nil", c.user, c.users, done)

(* AuthenticateUser without the approval gate. *)
AuthenticateUser_NoGate(tbl, username, password, fault) ==
    LET g == GetUserByUsername(tbl, username, fault # "get")
        read == <<"GetUserByUsername">>
    IN
    IF g.err # "nil" THEN UResult(g.err, {}, tbl, read)
    ELSE IF g.user = {} THEN UResult("ErrUserNotFound", {}, tbl, read)
    ELSE LET user == The(g.user) IN
         IF ~Matches(user.passwordHash, password)
         THEN UResult("ErrUnauthorized", {}, tbl, read)
         ELSE UResult("nil", {user}, tbl, read)

AuthenticateUser(tbl, username, password, fault) ==
    LET g == GetUserByUsername(tbl, username, fault # "get")
        read == <<"GetUserByUsername">>
    IN
    IF g.err # "nil" THEN UResult(g.err, {}, tbl, read)
    ELSE IF g.user = {} THEN UResult("ErrUserNotFound", {}, tbl, read)
    ELSE LET user == The(g.user) IN
         IF ~Matches(user.passwordHash, password)
         THEN UResult("ErrUnauthorized", {}, tbl, read)
         ELSE IF user.approvedAt = {} THEN UResult("ErrUserNotApproved", {}, tbl, read)
         ELSE UResult("nil", {user}, tbl, read)

UpdateUser(tbl, user, fault) ==
    IF validateUsername(user.username) # "nil"
    THEN UResult(validateUsername(user.username), {}, tbl, <<>>)
    ELSE LET u == RepoUpdateUser(tbl, user, fault # "update") IN
         UResult(u.err, {}, u.users, <<"UpdateUser">>)

DeleteUser(tbl, username, fault) ==
    LET d == DeleteUserByUsername(tbl, username, fault # "delete") IN
    UResult(d.err, {}, d.users, <<"DeleteUserByUsername">>)

(* The new hash is set on the fetched copy; UpdateUser then writes the  *)
(* copy's other columns.                                                 *)
ChangePassword(tbl, username, currentPassword, newPassword, salt, fault) ==
    LET a == AuthenticateUser(tbl, username, currentPassword, fault) IN
    IF a.err # "nil" THEN UResult(a.err, {}, tbl, a.calls)
    ELSE IF validatePassword(newPassword) # "nil"
         THEN UResult(validatePassword(newPassword), {}, tbl, a.calls)
    ELSE LET user == [The(a.user) EXCEPT !.passwordHash = PasswordSet(newPassword, salt)]
             u == RepoUpdateUser(tbl, user, fault # "update")
         IN UResult(u.err, {}, u.users, Append(a.calls, "UpdateUser"))

ApproveUser(tbl, userID, approvedBy, clock, fault) ==
    LET g == GetUserByID(tbl, userID, fault # "getUser")
        one == <<"GetUserByID">>
        two == <<"GetUserByID", "GetUserByID">>
    IN
    IF g.err # "nil" THEN UResult(g.err, {}, tbl, one)
    ELSE IF g.user = {} THEN UResult("ErrUserNotFound", {}, tbl, one)
    ELSE IF The(g.user).approvedAt # {} THEN UResult("ErrUserAlreadyApproved", {}, tbl, one)
    ELSE LET a == GetUserByID(tbl, approvedBy, fault # "getAdmin") IN
         IF a.err # "nil" THEN UResult(a.err, {}, tbl, two)
         ELSE IF a.user = {} \/ ~The(a.user).isAdmin
              THEN UResult("ErrUnauthorized", {}, tbl, two)
         ELSE LET u == RepoApproveUser(tbl, userID, approvedBy, clock, fault # "update") IN
              UResult(u.err, {}, u.users, Append(two, "ApproveUser"))

(* MakeAdmin without the check of the acting admin. *)
MakeAdmin_NoCheck(tbl, userID, adminID, fault) ==
    LET g == GetUserByID(tbl, userID, fault # "getUser")
        one == <<"GetUserByID">>
    IN
    IF g.err # "nil" THEN UResult(g.err, {}, tbl, one)
    ELSE IF g.user = {} THEN UResult("ErrUserNotFound", {}, tbl, one)
    ELSE LET u == RepoUpdateUser(tbl, [The(g.user) EXCEPT !.isAdmin = TRUE],
                                 fault # "update") IN
         UResult(u.err, {}, u.users, Append(one, "UpdateUser"))

MakeAdmin(tbl, userID, adminID, fault) ==
    LET a == GetUserByID(tbl, adminID, fault # "getAdmin")
        one == <<"GetUserByID">>
        two == <<"GetUserByID", "GetUserByID">>
    IN
    IF a.err # "nil" THEN UResult(a.err, {}, tbl, one)
    ELSE IF a.user = {} \/ ~The(a.user).isAdmin THEN UResult("ErrUnauthorized", {}, tbl, one)
    ELSE LET g == GetUserByID(tbl, userID, fault # "getUser") IN
         IF g.err # "nil" THEN UResult(g.err, {}, tbl, two)
         ELSE IF g.user = {} THEN UResult("ErrUserNotFound", {}, tbl, two)
         ELSE LET u == RepoUpdateUser(tbl, [The(g.user) EXCEPT !.isAdmin = TRUE],
                                      fault # "update") IN
              UResult(u.err, {}, u.users, Append(two, "UpdateUser"))

(* RevokeAdmin without the check that the target is not the actor. *)
RevokeAdmin_SelfAllowed(tbl, userID, adminID, fault) ==
    LET a == GetUserByID(tbl, adminID, fault # "getAdmin")
        one == <<"GetUserByID">>
        two == <<"GetUserByID", "GetUserByID">>
    IN
    IF a.err # "nil" THEN UResult(a.err, {}, tbl, one)
    ELSE IF a.user = {} \/ ~The(a.user).isAdmin THEN UResult("ErrUnauthorized", {}, tbl, one)
    ELSE LET g == GetUserByID(tbl, userID, fault # "getUser") IN
         IF g.err # "nil" THEN UResult(g.err, {}, tbl, two)
         ELSE IF g.user = {} THEN UResult("ErrUserNotFound", {}, tbl, two)
         ELSE LET u == RepoUpdateUser(tbl, [The(g.user) EXCEPT !.isAdmin = FALSE],
                                      fault # "update") IN
              UResult(u.err, {}, u.users, Append(two, "UpdateUser"))

RevokeAdmin(tbl, userID, adminID, fault) ==
    LET a == GetUserByID(tbl, adminID, fault # "getAdmin")
        one == <<"GetUserByID">>
        two == <<"GetUserByID", "GetUserByID">>
    IN
    IF a.err # "nil" THEN UResult(a.err, {}, tbl, one)
    ELSE IF a.user = {} \/ ~The(a.user).isAdmin THEN UResult("ErrUnauthorized", {}, tbl, one)
    ELSE IF userID = adminID THEN UResult("ErrOwnAdmin", {}, tbl, one)
    ELSE LET g == GetUserByID(tbl, userID, fault # "getUser") IN
         IF g.err # "nil" THEN UResult(g.err, {}, tbl, two)
         ELSE IF g.user = {} THEN UResult("ErrUserNotFound", {}, tbl, two)
         ELSE LET u == RepoUpdateUser(tbl, [The(g.user) EXCEPT !.isAdmin = FALSE],
                                      fault # "update") IN
              UResult(u.err, {}, u.users, Append(two, "UpdateUser"))

UpdateUserStatus(tbl, userID, status, adminID, fault) ==
    LET a == GetUserByID(tbl, adminID, fault # "getAdmin")
        one == <<"GetUserByID">>
        two == <<"GetUserByID", "GetUserByID">>
    IN
    IF a.err # "nil" THEN UResult(a.err, {}, tbl, one)
    ELSE IF a.user = {} \/ ~The(a.user).isAdmin THEN UResult("ErrUnauthorized", {}, tbl, one)
    ELSE LET g == GetUserByID(tbl, userID, fault # "getUser") IN
         IF g.err # "nil" THEN UResult(g.err, {}, tbl, two)
         ELSE IF g.user = {} THEN UResult("ErrUserNotFound", {}, tbl, two)
         ELSE LET u == RepoUpdateUser(tbl, [The(g.user) EXCEPT !.status = status],
                                      fault # "update") IN
              UResult(u.err, {}, u.users, Append(two, "UpdateUser"))

----------------------------------------------------------------------------
(* The record of the last user-service call: its name, the acting and   *)
(* the target user ids, the credentials passed, what it returned and    *)
(* the repository methods it called.                                     *)

UCalled(op, actor, target, username, password, r) ==
    [op |-> op, actor |-> actor, target |-> target, username |-> username,
     password |-> password, err |-> r.err, user |-> r.user, calls |-> r.calls]

NoUCall ==
    [op |-> "none", actor |-> 0, target |-> 0, username |-> <<>>,
     password |-> <<>>, err |-> "nil", user |-> {}, calls |-> <<>>]

(* The row the deployment starts with: an approved administrator. *)
SeedAdmin == UserRow(1, NameAdmin, PasswordSet(PwValid, 1), {0}, {}, TRUE, "active")

(* The ids the table hands out stop at MaxUsers: a call that would *)
(* insert a row beyond it is not taken.                            *)
DoCreateUser ==
    /\ uret = NoUCall
    /\ \E username \in NameInputs, password \in NewPasswords, salt \in Salts,
          fault \in {"none", "get", "insert"} :
          LET r == CreateUser(users, username, password, nextID, salt, fault) IN
          /\ r.err = "nil" => nextID <= MaxUsers
          /\ users' = r.users
          /\ nextID' = IF r.err = "nil" THEN nextID + 1 ELSE nextID
          /\ uret' = UCalled("CreateUser", 0, 0, username, password, r)
    /\ UNCHANGED <<tokenVars, procVars>>

DoAuthenticateUser ==
    /\ uret = NoUCall
    /\ \E username \in Names, password \in {PwValid, PwOther}, fault \in {"none", "get"} :
          LET r == AuthenticateUser(users, username, password, fault) IN
          /\ users' = r.users
          /\ uret' = UCalled("AuthenticateUser", 0, 0, username, password, r)
    /\ UNCHANGED <<nextID, tokenVars, procVars>>

(* The caller takes the result; the next call may start. *)
UReturn ==
    /\ uret # NoUCall
    /\ uret' = NoUCall
    /\ UNCHANGED <<users, nextID, tokenVars, procVars>>

(* The struct a caller hands to UpdateUser: a stored row, or a row with *)
(* an id that is not stored, with one of its fields set by the caller.  *)
UpdateInputs ==
    LET bases == users \cup {UserRow(0, NameBob, PasswordSet(PwValid, 1), {}, {},
                                     FALSE, "pending")}
    IN {[b EXCEPT !.username = n] : b \in bases, n \in {NameBobPadded, NameShort}}
       \cup {[b EXCEPT !.isAdmin = a] : b \in bases, a \in BOOLEAN}
       \cup {[b EXCEPT !.approvedAt = {}, !.approvedBy = {}] : b \in bases}

DoUpdateUser ==
    /\ uret = NoUCall
    /\ \E user \in UpdateInputs, fault \in {"none", "update"} :
          LET r == UpdateUser(users, user, fault) IN
          /\ users' = r.users
          /\ uret' = UCalled("UpdateUser", 0, user.id, user.username, <<>>, r)
    /\ UNCHANGED <<nextID, tokenVars, procVars>>

DoDeleteUser ==
    /\ uret = NoUCall
    /\ \E username \in Names, fault \in {"none", "delete"} :
          LET r == DeleteUser(users, username, fault) IN
          /\ users' = r.users
          /\ uret' = UCalled("DeleteUser", 0, 0, username, <<>>, r)
    /\ UNCHANGED <<nextID, tokenVars, procVars>>

DoChangePassword ==
    /\ uret = NoUCall
    /\ \E username \in Names, cur \in {PwValid, PwOther}, new \in {PwOther, PwWeak},
          salt \in Salts, fault \in {"none", "get", "update"} :
          LET r == ChangePassword(users, username, cur, new, salt, fault) IN
          /\ users' = r.users
          /\ uret' = UCalled("ChangePassword", 0, 0, username, new, r)
    /\ UNCHANGED <<nextID, tokenVars, procVars>>

AdminFaults == {"none", "getAdmin", "getUser", "update"}

DoApproveUser ==
    /\ uret = NoUCall
    /\ \E userID \in UserIDs, approvedBy \in ActorIDs, fault \in AdminFaults :
          LET r == ApproveUser(users, userID, approvedBy, now, fault) IN
          /\ users' = r.users
          /\ uret' = UCalled("ApproveUser", approvedBy, userID, <<>>, <<>>, r)
    /\ UNCHANGED <<nextID, tokenVars, procVars>>

DoMakeAdmin ==
    /\ uret = NoUCall
    /\ \E userID \in UserIDs, adminID \in ActorIDs, fault \in AdminFaults :
          LET r == MakeAdmin(users, userID, adminID, fault) IN
          /\ users' = r.users
          /\ uret' = UCalled("MakeAdmin", adminID, userID, <<>>, <<>>, r)
    /\ UNCHANGED <<nextID, tokenVars, procVars>>

DoRevokeAdmin ==
    /\ uret = NoUCall
    /\ \E userID \in UserIDs, adminID \in ActorIDs, fault \in AdminFaults :
          LET r == RevokeAdmin(users, userID, adminID, fault) IN
          /\ users' = r.users
          /\ uret' = UCalled("RevokeAdmin", adminID, userID, <<>>, <<>>, r)
    /\ UNCHANGED <<nextID, tokenVars, procVars>>

DoUpdateUserStatus ==
    /\ uret = NoUCall
    /\ \E userID \in UserIDs, status \in Statuses, adminID \in ActorIDs,
          fault \in AdminFaults :
          LET r == UpdateUserStatus(users, userID, status, adminID, fault) IN
          /\ users' = r.users
          /\ uret' = UCalled("UpdateUserStatus", adminID, userID, <<>>, <<>>, r)
    /\ UNCHANGED <<nextID, tokenVars, procVars>>

(* The record of a GetUserToken call: the fields of a user-service call *)
(* and the scope and the plaintext passed.                               *)
Looked(scope, plaintext, r) ==
    [op |-> "GetUserToken", actor |-> 0, target |-> 0, username |-> <<>>,
     password |-> <<>>, err |-> r.err, user |-> r.user, calls |-> <<"GetUserToken">>,
     scope |-> scope, plaintext |-> plaintext]

DoGetUserToken ==
    /\ uret = NoUCall /\ ret = NoCall
    /\ \E scope \in Scopes, p \in PlainTexts, dbOk \in BOOLEAN :
          LET r == GetUserToken(users, tokens, scope, p, now, dbOk) IN
          uret' = Looked(scope, p, r)
    /\ UNCHANGED <<users, nextID, tokenVars, procVars>>

----------------------------------------------------------------------------
(* Concurrent user-service requests.  Each of two requests runs one      *)
(* method one repository call at a time; call[p] holds its arguments,    *)
(* (set) the field a MakeAdmin, RevokeAdmin or UpdateUserStatus is to    *)
(* set, the error it returns and (copy) the User value it fetched and    *)
(* will hand to the repository.                                          *)

Request(op, actor, target, username, set, err, copy) ==
    [op |-> op, actor |-> actor, target |-> target, username |-> username,
     set |-> set, err |-> err, copy |-> copy]

NoWrite == [op |-> "none", field |-> "none", value |-> FALSE]

(* MakeAdmin, RevokeAdmin, UpdateUserStatus: the field each one sets on *)
(* the fetched user before UpdateUser.                                   *)
AdminWrites ==
    {[op |-> "MakeAdmin", field |-> "isAdmin", value |-> TRUE],
     [op |-> "RevokeAdmin", field |-> "isAdmin", value |-> FALSE]}
    \cup {[op |-> "UpdateUserStatus", field |-> "status", value |-> st] : st \in Statuses}

Stop(p, c, err) ==
    /\ call' = [call EXCEPT ![p] = [c EXCEPT !.err = err]]
    /\ pc' = [pc EXCEPT ![p] = "done"]

(* MakeAdmin / RevokeAdmin / UpdateUserStatus: GetUserByID(adminID) and *)
(* the checks on the acting admin.                                       *)
AdminCheck(p, ops) ==
    /\ pc[p] = "idle" /\ uret = NoUCall
    /\ \E w \in AdminWrites, userID \in UserIDs, adminID \in UserIDs, dbOk \in BOOLEAN :
          LET a == GetUserByID(users, adminID, dbOk)
              c == Request(w.op, adminID, userID, <<>>, w, "nil", {})
          IN /\ w.op \in ops
             /\ IF a.err # "nil" THEN Stop(p, c, a.err)
                ELSE IF a.user = {} \/ ~The(a.user).isAdmin THEN Stop(p, c, "ErrUnauthorized")
                ELSE IF w.op = "RevokeAdmin" /\ userID = adminID THEN Stop(p, c, "ErrOwnAdmin")
                ELSE /\ call' = [call EXCEPT ![p] = c]
                     /\ pc' = [pc EXCEPT ![p] = "authorized"]
    /\ UNCHANGED <<tokenVars, userVars>>

(* MakeAdmin / RevokeAdmin / UpdateUserStatus: GetUserByID(userID), and *)
(* the field set on the fetched user.                                    *)
AdminFetch(p) ==
    /\ pc[p] = "authorized"
    /\ \E dbOk \in BOOLEAN :
          LET c == call[p]
              w == c.set
              g == GetUserByID(users, c.target, dbOk)
          IN IF g.err # "nil" THEN Stop(p, c, g.err)
             ELSE IF g.user = {} THEN Stop(p, c, "ErrUserNotFound")
             ELSE /\ call' = [call EXCEPT ![p] =
                         [c EXCEPT !.copy = {IF w.field = "isAdmin"
                                             THEN [The(g.user) EXCEPT !.isAdmin = w.value]
                                             ELSE [The(g.user) EXCEPT !.status = w.value]}]]
                  /\ pc' = [pc EXCEPT ![p] = "fetched"]
    /\ UNCHANGED <<tokenVars, userVars>>

(* MakeAdmin / RevokeAdmin / UpdateUserStatus / ChangePassword: the     *)
(* UpdateUser call with the fetched user, and the return.                *)
WriteBack(p) ==
    /\ pc[p] = "fetched"
    /\ \E dbOk \in BOOLEAN :
          LET c == call[p]
              u == RepoUpdateUser(users, The(c.copy), dbOk)
          IN /\ users' = u.users
             /\ Stop(p, c, u.err)
    /\ UNCHANGED <<tokenVars, nextID, uret>>

(* ApproveUser: GetUserByID(userID) and the checks on the target. *)
ApproveFetch(p) ==
    /\ pc[p] = "idle" /\ uret = NoUCall
    /\ \E userID \in UserIDs, approvedBy \in UserIDs, dbOk \in BOOLEAN :
          LET g == GetUserByID(users, userID, dbOk)
              c == Request("ApproveUser", approvedBy, userID, <<>>, NoWrite, "nil", {})
          IN IF g.err # "nil" THEN Stop(p, c, g.err)
             ELSE IF g.user = {} THEN Stop(p, c, "ErrUserNotFound")
             ELSE IF The(g.user).approvedAt # {} THEN Stop(p, c, "ErrUserAlreadyApproved")
             ELSE /\ call' = [call EXCEPT ![p] = c]
                  /\ pc' = [pc EXCEPT ![p] = "unapproved"]
    /\ UNCHANGED <<tokenVars, userVars>>

(* ApproveUser: GetUserByID(approvedBy) and the checks on the approver. *)
ApproveCheck(p) ==
    /\ pc[p] = "unapproved"
    /\ \E dbOk \in BOOLEAN :
          LET c == call[p]
              a == GetUserByID(users, c.actor, dbOk)
          IN IF a.err # "nil" THEN Stop(p, c, a.err)
             ELSE IF a.user = {} \/ ~The(a.user).isAdmin THEN Stop(p, c, "ErrUnauthorized")
             ELSE /\ call' = call
                  /\ pc' = [pc EXCEPT ![p] = "approving"]
    /\ UNCHANGED <<tokenVars, userVars>>

(* ApproveUser: the repository's ApproveUser call, and the return. *)
ApproveWrite(p) ==
    /\ pc[p] = "approving"
    /\ \E dbOk \in BOOLEAN :
          LET c == call[p]
              u == RepoApproveUser(users, c.target, c.actor, now, dbOk)
          IN /\ users' = u.users
             /\ Stop(p, c, u.err)
    /\ UNCHANGED <<tokenVars, nextID, uret>>

(* ChangePassword: AuthenticateUser (one GetUserByUsername), the check  *)
(* of the new password and the hash set on the fetched user.             *)
PasswordAuth(p) ==
    /\ pc[p] = "idle" /\ uret = NoUCall
    /\ \E username \in Names, cur \in {PwValid}, new \in {PwOther, PwWeak},
          salt \in Salts, fault \in {"none", "get"} :
          LET a == AuthenticateUser(users, username, cur, fault)
              c == Request("ChangePassword", 0, 0, username, NoWrite, "nil", {})
          IN IF a.err # "nil" THEN Stop(p, c, a.err)
             ELSE IF validatePassword(new) # "nil" THEN Stop(p, c, validatePassword(new))
             ELSE /\ call' = [call EXCEPT ![p] =
                         [c EXCEPT !.target = The(a.user).id,
                                   !.copy = {[The(a.user) EXCEPT
                                                !.passwordHash = PasswordSet(new, salt)]}]]
                  /\ pc' = [pc EXCEPT ![p] = "fetched"]
    /\ UNCHANGED <<tokenVars, userVars>>

(* The request is over; the next one may start. *)
Done(p) ==
    /\ pc[p] = "done"
    /\ pc' = [pc EXCEPT ![p] = "idle"]
    /\ call' = [call EXCEPT ![p] = NoIssue]
    /\ UNCHANGED <<tokenVars, userVars>>

(* Registrations and promotions run on their own, between the requests *)
(* that run concurrently.                                               *)
Quiet == \A p \in Procs : pc[p] = "idle"

----------------------------------------------------------------------------
Init ==
    /\ tokens = {}
    /\ now = 0
    /\ ret = NoCall
    /\ users = {SeedAdmin}
    /\ nextID = 2
    /\ uret = NoUCall
    /\ pc = [p \in Procs |-> "idle"]
    /\ call = [p \in Procs |-> NoIssue]

(* The token service, its calls run one at a time. *)
Next ==
    \/ DoCreateAuthToken
    \/ DoCreateDeployToken
    \/ DoCreateAuthTokenWithRefresh
    \/ DoRefreshAuthToken
    \/ DoRevokeToken
    \/ DoRevokeAllUserTokens
    \/ Return

Spec == Init /\ [][Next]_vars

(* Issuance and validation while the clock moves. *)
NextClock ==
    \/ DoCreateAuthTokenWithRefresh
    \/ DoRefreshAuthToken
    \/ DoValidateToken
    \/ Return
    \/ Tick

SpecClock == Init /\ [][NextClock]_vars

(* The user service, its calls run one at a time. *)
NextUser ==
    \/ DoCreateUser
    \/ DoAuthenticateUser
    \/ DoUpdateUser
    \/ DoDeleteUser
    \/ DoChangePassword
    \/ DoApproveUser
    \/ DoMakeAdmin
    \/ DoRevokeAdmin
    \/ DoUpdateUserStatus
    \/ UReturn

SpecUser == Init /\ [][NextUser]_vars

(* Two issuance requests interleaved at their storage calls. *)
NextConc == \E p \in Procs : Evict(p) \/ Issue(p) \/ Finish(p)

SpecConc == Init /\ [][NextConc]_vars

(* ApproveUser interleaved with MakeAdmin, RevokeAdmin, UpdateUserStatus *)
(* and ChangePassword at their repository calls.                         *)
NextUserConc ==
    \/ Quiet /\ (DoCreateUser \/ UReturn)
    \/ \E p \in Procs :
          \/ ApproveFetch(p) \/ ApproveCheck(p) \/ ApproveWrite(p)
          \/ AdminCheck(p, {"MakeAdmin", "RevokeAdmin", "UpdateUserStatus"})
          \/ AdminFetch(p) \/ WriteBack(p)
          \/ PasswordAuth(p)
          \/ Done(p)

SpecUserConc == Init /\ [][NextUserConc]_vars

(* RevokeAdmin calls interleaved with each other at their repository   *)
(* calls.                                                               *)
NextRevokeConc ==
    \/ Quiet /\ (DoCreateUser \/ DoMakeAdmin \/ UReturn)
    \/ \E p \in Procs :
          \/ AdminCheck(p, {"RevokeAdmin"})
          \/ AdminFetch(p) \/ WriteBack(p)
          \/ Done(p)

SpecRevokeConc == Init /\ [][NextRevokeConc]_vars

(* Token lookups of both kinds, run one at a time while tokens are     *)
(* issued and the clock moves.                                          *)
NextLookup ==
    \/ uret = NoUCall /\ \/ DoCreateAuthTokenWithRefresh
                          \/ DoValidateToken
                          \/ Return
                          \/ Tick
    \/ DoGetUserToken
    \/ UReturn

SpecLookup == Init /\ [][NextLookup]_vars

----------------------------------------------------------------------------
(* Properties of the token service. *)

AuthRows(store, userID) == SlotRows(store, userID, ScopeAuth)
Rows(ts) == {Row(t) : t \in ts}
Succeeded(op) == ret.op = op /\ ret.err = "nil"

(* C1: after any sequence of token-service calls run one at a time, the *)
(* store holds at most one authentication-scope token for each user.    *)
C1_AtMostOneAuthToken ==
    \A u \in TokenUserIDs : Cardinality(AuthRows(tokens, u)) <= 1

(* C2: after a successful refreshAuthToken for a refresh token of user u, *)
(* the only authentication-scope token stored for u is the one returned.  *)
C2_RefreshEvictsAuthTokens ==
    Succeeded("RefreshAuthToken") => AuthRows(tokens, ret.userID) = Rows(ret.token)

(* What validateToken is to return for a plaintext and an expected scope: *)
(* existence first, then expiry, then scope.                              *)
ValidateOutcome(store, plaintext, scope, clock) ==
    LET found == {r \in store : r.hash = Sha256(plaintext)} IN
    IF found = {} THEN [err |-> "ErrTokenNotFound", token |-> {}]
    ELSE IF \E r \in found : clock > r.expiry THEN [err |-> "ErrTokenExpired", token |-> {}]
    ELSE IF \E r \in found : r.scope # scope THEN [err |-> "ErrInvalidScope", token |-> {}]
    ELSE [err |-> "nil", token |-> found]

(* C3: validateToken checks existence, then expiry, then scope, returns  *)
(* the stored token when all three pass, and never modifies the store    *)
(* (the outcome is stated for a hash lookup that the storage answers).   *)
C3_ValidateOrder ==
    [][(ret' # ret /\ ret'.op = "ValidateToken") =>
          /\ tokens' = tokens
          /\ ret'.dberr # "ErrDB" =>
                LET o == ValidateOutcome(tokens, ret'.plaintext, ret'.scope, now) IN
                ret'.err = o.err /\ ret'.token = o.token]_vars

(* An expired token validated against a scope that is not its own. *)
C3_Witness ==
    /\ ret.op = "ValidateToken"
    /\ ret.err = "ErrTokenExpired"
    /\ \E r \in tokens : /\ r.hash = Sha256(ret.plaintext)
                         /\ r.scope # ret.scope
                         /\ now > r.expiry

(* C4: a successful createAuthToken(u) (createDeployToken(u)) leaves    *)
(* exactly one authentication-scope (deployment-scope) token stored for *)
(* u, the one it returns, however many were stored before.              *)
C4_IssuanceLeavesOne ==
    (Succeeded("CreateAuthToken") \/ Succeeded("CreateDeployToken")) =>
        /\ Cardinality(ret.token) = 1
        /\ \A t \in ret.token : t.userID = ret.userID /\ t.scope = ret.scope
        /\ SlotRows(tokens, ret.userID, ret.scope) = Rows(ret.token)

(* createAuthToken succeeded for a user who had two auth tokens stored. *)
C4_Witness ==
    Succeeded("CreateAuthToken") /\ ret.before >= 2

(* C5: a successful refreshAuthToken returns a new authentication-scope  *)
(* token of the refresh token's user and leaves the refresh token's row  *)
(* as it was, so that the same plaintext still validates as a refresh    *)
(* token.                                                                 *)
C5_RefreshKeepsRefreshToken ==
    [][(ret' # ret /\ ret'.op = "RefreshAuthToken" /\ ret'.err = "nil") =>
          \E r \in tokens :
              /\ r.hash = Sha256(ret'.plaintext)
              /\ r.scope = ScopeRefresh
              /\ r \in tokens'
              /\ Cardinality(ret'.token) = 1
              /\ \A t \in ret'.token :
                    /\ t.scope = ScopeAuth
                    /\ t.userID = r.userID
                    /\ Row(t) \in tokens' \ tokens
              /\ ValidateToken(tokens', ret'.plaintext, ScopeRefresh, now', TRUE).token = {r}]_vars

(* refreshAuthToken succeeded a second time on the same refresh token: *)
(* the user already held an auth token and the refresh token is stored. *)
C5_Witness ==
    /\ Succeeded("RefreshAuthToken")
    /\ ret.before >= 1
    /\ \E r \in tokens : r.hash = Sha256(ret.plaintext) /\ r.scope = ScopeRefresh

(* C7: a token-service call whose storage call fails with an            *)
(* infrastructure error returns that error, not a classified one.       *)
C7_InfraErrorPropagates ==
    ret.dberr = "ErrDB" => ret.err = "ErrDB"

(* C6: when two issuance calls for the same user and scope both delete  *)
(* before either inserts and both succeed, two tokens of that (user,     *)
(* scope) are stored once both have returned.                            *)
C6_RacingIssuanceLeavesTwo ==
    \A p \in Procs : \A q \in Procs \ {p} :
        ( /\ pc[p] = "done" /\ pc[q] = "done"
          /\ call[p].err = "nil" /\ call[q].err = "nil"
          /\ SameSlot(call[p], call[q])
          /\ call[p].raced )
        => /\ Cardinality(SlotRows(tokens, call[p].userID, call[p].scope)) = 2
           /\ SlotRows(tokens, call[p].userID, call[p].scope)
                  = Rows(call[p].token \cup call[q].token)

(* Both requests have returned successfully after racing on one slot. *)
C6_Witness ==
    \E p \in Procs : \E q \in Procs \ {p} :
        /\ pc[p] = "done" /\ pc[q] = "done"
        /\ call[p].err = "nil" /\ call[q].err = "nil"
        /\ SameSlot(call[p], call[q])
        /\ call[p].raced
        /\ call[p].scope = ScopeAuth
        /\ Cardinality(SlotRows(tokens, call[p].userID, ScopeAuth)) = 2

----------------------------------------------------------------------------
(* Properties of the user service. *)

AdminOps == {"ApproveUser", "MakeAdmin", "RevokeAdmin", "UpdateUserStatus"}
IsStoredAdmin(tbl, id) == \E r \in tbl : r.id = id /\ r.isAdmin
Protected(r) == <<r.isAdmin, r.approvedAt, r.approvedBy, r.status>>

(* C8: a stored user's isAdmin, approvedAt/approvedBy and status change *)
(* only by a call whose acting user is, at the call, a stored admin.    *)
C8_ProtectedFieldsNeedAdmin ==
    [][(\E r \in users : \E v \in users' : r.id = v.id /\ Protected(r) # Protected(v))
          => (uret'.op \in AdminOps /\ IsStoredAdmin(users, uret'.actor))]_vars

(* C9: approveUser, makeAdmin, revokeAdmin and updateUserStatus, called *)
(* with an acting id that names no stored user or a stored non-admin,   *)
(* return an error and change no user record; makeAdmin's error is      *)
(* Unauthorized (when the storage answers the lookup of the actor).     *)
C9_NonAdminActorRejected ==
    [][(uret'.op \in AdminOps /\ uret' # uret /\ ~IsStoredAdmin(users, uret'.actor))
          => /\ uret'.err # "nil"
             /\ users' = users
             /\ (uret'.op = "MakeAdmin" /\ uret'.err # "ErrDB")
                    => uret'.err = "ErrUnauthorized"]_vars

(* makeAdmin by a stored non-admin on a stored non-admin was refused. *)
C9_Witness ==
    /\ uret.op = "MakeAdmin"
    /\ uret.err = "ErrUnauthorized"
    /\ \E r \in users : r.id = uret.actor /\ ~r.isAdmin
    /\ \E t \in users : t.id = uret.target /\ ~t.isAdmin

(* What authenticateUser is to return for a username and a password. *)
AuthOutcome(tbl, username, password) ==
    LET found == {r \in tbl : r.username = username} IN
    IF found = {} THEN [err |-> "ErrUserNotFound", user |-> {}]
    ELSE IF \E r \in found : ~Matches(r.passwordHash, password)
         THEN [err |-> "ErrUnauthorized", user |-> {}]
    ELSE IF \E r \in found : r.approvedAt = {}
         THEN [err |-> "ErrUserNotApproved", user |-> {}]
    ELSE [err |-> "nil", user |-> found]

(* C10: authenticateUser returns the user only if the username is       *)
(* stored, the password matches and approvedAt is set; else NotFound,   *)
(* Unauthorized, NotApproved in that order (for a lookup the storage    *)
(* answers).  So no stored user with approvedAt null can authenticate.  *)
C10_AuthenticateGated ==
    /\ (uret.op = "AuthenticateUser" /\ uret.err # "ErrDB") =>
          LET o == AuthOutcome(users, uret.username, uret.password) IN
          /\ uret.err = o.err
          /\ uret.user = o.user
          /\ \A u \in uret.user : u.approvedAt # {}
    /\ \A r \in users : r.approvedAt = {} =>
          \A password \in {PwValid, PwOther, PwWeak} :
              AuthenticateUser(users, r.username, password, "none").err # "nil"

(* The right password of a user who is not approved was refused. *)
C10_Witness ==
    /\ uret.op = "AuthenticateUser"
    /\ uret.err = "ErrUserNotApproved"
    /\ \E r \in users : /\ r.username = uret.username
                        /\ Matches(r.passwordHash, uret.password)
                        /\ r.approvedAt = {}

ValidationErrors == {"ErrInvalidUsername", "ErrInvalidPassword"}

(* C11: when createUser, updateUser or changePassword returns an        *)
(* invalid-username or invalid-password error, it has called no         *)
(* repository method (no read, no write) and the users table is as it   *)
(* was.                                                                  *)
C11_ValidationBeforePersistence ==
    [][(/\ uret' # uret
        /\ uret'.op \in {"CreateUser", "UpdateUser", "ChangePassword"}
        /\ uret'.err \in ValidationErrors)
          => (uret'.calls = <<>> /\ users' = users)]_vars

(* C12: when createAuthTokenWithRefresh(u) has inserted the auth token  *)
(* and the creation of the refresh token then fails, the call returns   *)
(* an error and no tokens, and the auth token it inserted stays stored: *)
(* the table is the one before the call plus that one auth row of u.    *)
C12_NoRollbackOfAuthToken ==
    [][(/\ ret' # ret
        /\ ret'.op = "CreateAuthTokenWithRefresh"
        /\ ret'.calls = <<"CreateNewToken", "CreateNewToken">>
        /\ ret'.err # "nil")
          => /\ ret'.token = {} /\ ret'.refresh = {}
             /\ \E r \in tokens' \ tokens :
                   /\ r.scope = ScopeAuth
                   /\ r.userID = ret'.userID
                   /\ tokens' = tokens \cup {r}]_vars

(* The refresh insert failed in the database after the auth insert: the *)
(* user holds one auth token more than before the call.                 *)
C12_Witness ==
    /\ ret.op = "CreateAuthTokenWithRefresh"
    /\ ret.calls = <<"CreateNewToken", "CreateNewToken">>
    /\ ret.err = "ErrDB"
    /\ Cardinality(AuthRows(tokens, ret.userID)) = ret.before + 1

RefreshRows(store, userID) == SlotRows(store, userID, ScopeRefresh)

(* C13: createAuthTokenWithRefresh(u) deletes no refresh-scope token:   *)
(* every refresh row stored before the call is stored after it, and a   *)
(* successful call adds exactly one refresh row of u (the one returned), *)
(* so n successful calls leave n refresh tokens of u side by side.      *)
C13_RefreshTokensCoexist ==
    [][(ret' # ret /\ ret'.op = "CreateAuthTokenWithRefresh")
          => /\ \A r \in tokens : r.scope = ScopeRefresh => r \in tokens'
             /\ ret'.err = "nil" =>
                   /\ Cardinality(ret'.refresh) = 1
                   /\ Rows(ret'.refresh) \cap tokens = {}
                   /\ RefreshRows(tokens', ret'.userID)
                          = RefreshRows(tokens, ret'.userID) \cup Rows(ret'.refresh)]_vars

(* A second paired issuance for a user succeeded: two refresh tokens of *)
(* that user are stored.                                                 *)
C13_Witness ==
    /\ Succeeded("CreateAuthTokenWithRefresh")
    /\ Cardinality(RefreshRows(tokens, ret.userID)) = 2
    /\ Rows(ret.refresh) \subseteq tokens

(* C14: token deletes are idempotent.  revokeToken(hash) and            *)
(* revokeAllUserTokens(userID, scope), and the repository deletes under *)
(* them, return success whenever the database executes the statement,   *)
(* also when no row matches, and then leave the table as it was; the    *)
(* same delete applied again returns success and changes nothing more.  *)
C14_DeletesIdempotent ==
    [][(ret' # ret /\ ret'.op \in {"RevokeToken", "RevokeAllUserTokens"}
                  /\ ret'.dberr # "ErrDB")
          => LET hash == Sha256(ret'.plaintext)
                 byHash == ret'.op = "RevokeToken"
                 matching == IF byHash THEN {r \in tokens : r.hash = hash}
                             ELSE SlotRows(tokens, ret'.userID, ret'.scope)
                 again == IF byHash THEN RevokeToken(tokens', hash, TRUE)
                          ELSE RevokeAllUserTokens(tokens', ret'.userID, ret'.scope, TRUE)
                 repo == IF byHash THEN DeleteTokenByHash(tokens', hash, TRUE)
                         ELSE DeleteAllTokensForUser(tokens', ret'.userID, ret'.scope, TRUE)
             IN /\ ret'.err = "nil"
                /\ tokens' = tokens \ matching
                /\ matching = {} => tokens' = tokens
                /\ again.err = "nil" /\ again.store = tokens'
                /\ repo.err = "nil" /\ repo.store = tokens']_vars

(* revokeAllUserTokens returned success for a (user, scope) with no     *)
(* token stored, while other tokens are stored.                          *)
C14_Witness ==
    /\ Succeeded("RevokeAllUserTokens")
    /\ ret.before = 0
    /\ tokens # {}

(* C15: revokeAdmin(userID, adminID) with userID = adminID returns an  *)
(* error and changes no user record (so not the caller's isAdmin),     *)
(* whether or not the caller is an admin.                               *)
C15_NoSelfRevoke ==
    [][(uret' # uret /\ uret'.op = "RevokeAdmin" /\ uret'.actor = uret'.target)
          => (uret'.err # "nil" /\ users' = users)]_vars

(* A stored admin asked to revoke their own admin flag and was refused *)
(* for that reason; they are still an admin.                            *)
C15_Witness ==
    /\ uret.op = "RevokeAdmin"
    /\ uret.actor = uret.target
    /\ uret.err = "ErrOwnAdmin"
    /\ IsStoredAdmin(users, uret.actor)

(* C16: createUser with a username and a password that pass validation *)
(* returns AlreadyExists and leaves the table unchanged when a user     *)
(* with that username is stored; otherwise (the storage answering) it   *)
(* stores one new row with that username, status "pending", isAdmin     *)
(* false and approvedAt null, and returns it.  So with calls run one at *)
(* a time no two stored users share a username.                          *)
C16_CreateUserUnique ==
    /\ [][(/\ uret' # uret
            /\ uret'.op = "CreateUser"
            /\ validateUsername(uret'.username) = "nil"
            /\ validatePassword(uret'.password) = "nil"
            /\ uret'.err # "ErrDB")
              => IF \E r \in users : r.username = uret'.username
                 THEN uret'.err = "ErrUserAlreadyExists" /\ users' = users
                 ELSE /\ uret'.err = "nil"
                      /\ \E row \in users' \ users :
                            /\ users' = users \cup {row}
                            /\ uret'.user = {row}
                            /\ row.username = uret'.username
                            /\ row.status = "pending"
                            /\ ~row.isAdmin
                            /\ row.approvedAt = {}
                            /\ Matches(row.passwordHash, uret'.password)
                            /\ \A r \in users : r.id # row.id]_vars
    /\ [](\A r \in users : \A v \in users : r.username = v.username => r = v)

(* createUser was refused for a username that is stored, with two users *)
(* in the table.                                                         *)
C16_Witness ==
    /\ uret.op = "CreateUser"
    /\ uret.err = "ErrUserAlreadyExists"
    /\ \E r \in users : r.username = uret.username
    /\ Cardinality(users) = 2

(* A username of 3 to 50 characters, all in [A-Za-z0-9_-]. *)
WellFormedUsername(str) ==
    /\ Len(str) >= MinUsernameLen
    /\ Len(str) <= MaxUsernameLen
    /\ AllIn(str, LowerChars \cup UpperChars \cup DigitChars \cup {"_", "-"})

(* C17: every stored username is 3 to 50 characters of [A-Za-z0-9_-];   *)
(* createUser and updateUser reject any other username (one with         *)
(* leading or trailing whitespace, or "ab") with a validation error and *)
(* write nothing.                                                        *)
C17_StoredUsernamesWellFormed ==
    /\ [](\A r \in users : WellFormedUsername(r.username))
    /\ [][(/\ uret' # uret
            /\ uret'.op \in {"CreateUser", "UpdateUser"}
            /\ ~WellFormedUsername(uret'.username))
              => (uret'.err \in ValidationErrors /\ users' = users)]_vars

(* C18: when changePassword(username, currentPassword, newPassword)     *)
(* has returned success, the stored credential is the new one:           *)
(* authenticateUser(username, newPassword) succeeds, and with any other  *)
(* password (the current one among them) it returns Unauthorized.        *)
C18_ChangePasswordTakesEffect ==
    (uret.op = "ChangePassword" /\ uret.err = "nil") =>
        /\ AuthenticateUser(users, uret.username, uret.password, "none").err = "nil"
        /\ \A other \in {PwValid, PwOther, PwWeak} \ {uret.password} :
              AuthenticateUser(users, uret.username, other, "none").err = "ErrUnauthorized"

(* C19: once approveUser has returned success, the target's stored      *)
(* approvedAt is non-null, whatever makeAdmin, revokeAdmin,              *)
(* updateUserStatus or changePassword calls on the same user run         *)
(* concurrently with it.                                                  *)
C19_ApprovalSurvivesConcurrentWrites ==
    \A p \in Procs :
        (pc[p] = "done" /\ call[p].op = "ApproveUser" /\ call[p].err = "nil")
            => \A r \in users : r.id = call[p].target => r.approvedAt # {}

(* C20: from a state with at least one admin, no interleaving of       *)
(* revokeAdmin calls leaves the table without a user with isAdmin set. *)
C20_AnAdminRemains ==
    \E r \in users : r.isAdmin

(* C21: the two token checks agree.  For the stored tokens and users,  *)
(* the current time, and any plaintext and scope, GetUserToken returns  *)
(* a user exactly when validateToken succeeds and the token's owner is  *)
(* stored, and the user returned is that owner; so also at the instant  *)
(* equal to the token's expiry.                                          *)
C21_TokenChecksAgree ==
    [][(uret' # uret /\ uret'.op = "GetUserToken" /\ uret'.err # "ErrDB")
          => LET v == ValidateToken(tokens, uret'.plaintext, uret'.scope, now, TRUE)
                 owners == {u \in users : \E t \in v.token : t.userID = u.id}
             IN /\ uret'.err = "nil"
                /\ (uret'.user # {}) <=> (v.err = "nil" /\ owners # {})
                /\ uret'.user # {} => uret'.user = owners]_vars

====
